---- MODULE Spec2Model ----
(***************************************************************************)
(* A model of bank_management.py: the accounts and transactions tables of  *)
(* bank.db, the sqlite3 connection the ledger functions share, and the     *)
(* functions create_account, delete_account, deposit and withdraw.         *)
(*                                                                         *)
(* Amounts and balances are integers (the REAL column holds them exactly   *)
(* in the modelled range).  Account numbers are kept as integers: the      *)
(* accounts.account_number column is TEXT, and SQLite's TEXT affinity      *)
(* turns both the stored value and a compared integer into the same        *)
(* decimal text, so equality of the numbers is equality of the texts.      *)
(***************************************************************************)
EXTENDS Integers, Sequences, FiniteSets, TLC

\* ------------------------------------------------------------------ bounds
\* Calls made on the shared connection in one run of the model.
MaxCalls == 4
\* Write statements that raise sqlite3.Error in one run of the model.
MaxFaults == 1
\* Candidates drawn above the low end of the range (the high end is always drawn).
IdSpan == 1
\* Calls made by the concurrent sessions in one run of the model.
MaxSessionCalls == 3
\* Sessions calling concurrently, each on its own connection.
NumSessions == 2

\* ------------------------------------------------------- program constants
MinAccountNumber == 10000000
MaxAccountNumber == 99999999
MinAge == 16

\* What the Create Account form submits: the name as typed (it may be left empty),
\* an age of at least 16 (number_input's min_value) and one of the three genders.
\* The form as it first shows: no name typed, the lowest age, the first gender.
Genders == {"Male", "Female", "Other"}
Applicants == {[name |-> "", age |-> MinAge, gender |-> "Male"]}
\* st.number_input without min_value: zero and negative amounts can be entered.
Amounts == {-1, 1, 2}

\* random.randint(lo, hi): the candidates the model draws, all within lo..hi.
randint(lo, hi) == {n \in {lo + k : k \in 0 .. (IdSpan - 1)} \cup {hi} : lo <= n /\ n <= hi}

\* Account numbers that are typed into the forms: every candidate of the generator.
AccountNumberInputs == randint(MinAccountNumber, MaxAccountNumber)

\* --------------------------------------------------------------- the tables
VARIABLES
    accounts,       \* rows of table accounts as the shared connection sees them
    transactions,   \* rows of table transactions as the shared connection sees them, in insertion order
    committed,      \* the last committed contents of bank.db: [accounts, transactions]
    inTransaction,  \* the shared connection has an open (uncommitted) transaction
    last,           \* the last call and its outcome
    nCalls,         \* calls made so far
    nFaults,        \* write statements that raised so far
    timesIssued,    \* history: how often create_account returned each account number
    timesDeleted,   \* history: how often delete_account removed the account holding each number
    createdAt,      \* history: number of transaction rows when the account now holding a number was created
    \* concurrent sessions, each running the functions on a connection of its own
    pc,             \* the statement each session executes next ("idle" between calls)
    args,           \* the arguments of each session's call in progress
    fetched,        \* what each session's SELECT fetched
    connView,       \* the tables as each session's open transaction sees them
    result,         \* the outcome of each session's last finished call
    writeLock,      \* the session holding bank.db's write lock, 0 when free
    overlap,        \* history: some call began while another session's call was in progress
    nUnitDeposits   \* history: calls so far that were deposit(fresh account, 1)

seqVars == <<accounts, transactions, inTransaction, last, nFaults, timesIssued,
            timesDeleted, createdAt>>
concVars == <<pc, args, fetched, connView, result, writeLock, overlap, nUnitDeposits>>
vars == <<committed, nCalls, seqVars, concVars>>

Sessions == 1 .. NumSessions

\* WHERE account_number = ?  (and the PRIMARY KEY's uniqueness test): the column's
\* TEXT affinity is applied to the compared value, so a number matches its own text.
\* (Variant: no affinity applied, so the stored text never equals the integer compared.)
AccountNumberMatchesNoAffinity(row, account_number) == FALSE
AccountNumberMatches(row, account_number) == row.account_number = account_number

\* SELECT ... FROM accounts WHERE account_number = ?
SelectAccount(accts, account_number) ==
    {row \in accts : AccountNumberMatches(row, account_number)}

\* generate_account_number: the values the loop can return (a candidate is returned
\* when the SELECT finds no row for it; with no such candidate the loop never returns).
\* (Variant: the low end of the range one short, a 7-digit number.)
generate_account_number_7digits(accts) ==
    {n \in randint(MinAccountNumber - 1, MaxAccountNumber) : SelectAccount(accts, n) = {}}
generate_account_number(accts) ==
    {n \in randint(MinAccountNumber, MaxAccountNumber) : SelectAccount(accts, n) = {}}

\* The row create_account inserts: balance 0.
NewAccountRow(account_number, name, age, gender) ==
    [account_number |-> account_number, name |-> name, age |-> age,
     gender |-> gender, balance |-> 0]

\* account_number TEXT PRIMARY KEY: an INSERT of a number some row holds raises IntegrityError.
PrimaryKeyViolation(accts, account_number) == SelectAccount(accts, account_number) # {}

\* DELETE FROM accounts WHERE account_number = ?   (variant: no row matched)
DeleteRowsNone(accts, account_number) == accts
DeleteRows(accts, account_number) == accts \ SelectAccount(accts, account_number)

\* delete_account's DELETE names table accounts only: the transactions table is left
\* as it is (variant: the account's transaction rows are removed with it).
TransactionsAfterDeleteCascade(txs, account_number) ==
    SelectSeq(txs, LAMBDA tx : tx.account_number # account_number)
TransactionsAfterDelete(txs, account_number) == txs

\* UPDATE accounts SET balance = balance + ? WHERE account_number = ?
UpdateBalance(accts, account_number, delta) ==
    {IF AccountNumberMatches(row, account_number)
        THEN [row EXCEPT !.balance = @ + delta] ELSE row : row \in accts}

\* deposit's UPDATE: the addition is made by the statement, on the balance the
\* database holds when it runs, not on the row `account` fetched before
\* (variant: the new balance computed from the fetched row).
DepositStatementFromFetched(accts, account, account_number, amount) ==
    {IF AccountNumberMatches(row, account_number)
        THEN [row EXCEPT !.balance = (CHOOSE a \in account : TRUE).balance + amount]
        ELSE row : row \in accts}
DepositStatement(accts, account, account_number, amount) ==
    UpdateBalance(accts, account_number, amount)

\* withdraw's UPDATE: balance = balance - ?, likewise made by the statement.
WithdrawStatement(accts, account_number, amount) ==
    UpdateBalance(accts, account_number, -amount)

\* SELECT transaction_type, amount FROM transactions WHERE account_number = ?
\* (the transactions.account_number column is TEXT as well), rows in table order.
RECURSIVE SelectTransactions(_, _)
SelectTransactions(txs, account_number) ==
    IF Len(txs) = 0 THEN <<>>
    ELSE LET tx == txs[Len(txs)]
             before == SelectTransactions(SubSeq(txs, 1, Len(txs) - 1), account_number)
         IN IF AccountNumberMatches(tx, account_number)
            THEN Append(before, <<tx.transaction_type, tx.amount>>)
            ELSE before

\* id INTEGER PRIMARY KEY: a new row gets the largest id in the table plus one.
\* (Variant: the largest id itself.)
NextRowIdLargest(txs) ==
    IF Len(txs) = 0 THEN 1
    ELSE CHOOSE m \in {txs[i].id : i \in 1 .. Len(txs)} :
             \A i \in 1 .. Len(txs) : txs[i].id <= m
NextRowId(txs) ==
    IF Len(txs) = 0 THEN 1
    ELSE 1 + CHOOSE m \in {txs[i].id : i \in 1 .. Len(txs)} :
                 \A i \in 1 .. Len(txs) : txs[i].id <= m

\* INSERT INTO transactions (account_number, transaction_type, amount)
InsertTransaction(txs, account_number, transaction_type, amount) ==
    Append(txs, [id |-> NextRowId(txs), account_number |-> account_number,
                 transaction_type |-> transaction_type, amount |-> amount])

\* if balance >= amount   (variant: off by one)
SufficientBalanceOffByOne(balance, amount) == balance + 1 >= amount
SufficientBalance(balance, amount) == balance >= amount

\* conn.commit(): the connection's view becomes the committed contents.
Commit ==
    /\ committed' = [accounts |-> accounts', transactions |-> transactions']
    /\ inTransaction' = FALSE

\* A write statement raises sqlite3.Error and the except clause reports it, with no
\* rollback and no commit.  SQLite either aborts the statement alone (the implicit
\* transaction stays open with the writes made before it, `accts`) or rolls the whole
\* transaction back (disk full, I/O error).
StatementRaises(accts) ==
    /\ nFaults < MaxFaults
    /\ nFaults' = nFaults + 1
    /\ UNCHANGED <<committed, transactions>>
    /\ \/ accounts' = accts /\ inTransaction' = TRUE
       \/ accounts' = committed.accounts /\ inTransaction' = FALSE

\* History bookkeeping: a table from account numbers to counts, 0 where absent.
Get(f, n) == IF n \in DOMAIN f THEN f[n] ELSE 0
Put(f, n, v) == [m \in DOMAIN f \cup {n} |-> IF m = n THEN v ELSE f[m]]

\* A call returns: `ret` is what it returned ({} for None), `rows` what it displayed
\* of the transactions table.
CallShowing(op, account_number, amount, outcome, ret, rows) ==
    /\ nCalls < MaxCalls
    /\ nCalls' = nCalls + 1
    /\ last' = [op |-> op, account_number |-> account_number, amount |-> amount,
                outcome |-> outcome, ret |-> ret, rows |-> rows]

Call(op, account_number, amount, outcome, ret) ==
    CallShowing(op, account_number, amount, outcome, ret, <<>>)

NoArgs == [op |-> "none", account_number |-> 0, amount |-> 0]

\* No session is in a call and no connection holds a lock or an open transaction.
ConcIdle ==
    /\ pc = [s \in Sessions |-> "idle"]
    /\ args = [s \in Sessions |-> NoArgs]
    /\ fetched = [s \in Sessions |-> {}]
    /\ connView = [s \in Sessions |-> [accounts |-> {}, transactions |-> <<>>]]
    /\ result = [s \in Sessions |-> "none"]
    /\ writeLock = 0
    /\ overlap = FALSE
    /\ nUnitDeposits = 0

Init ==
    /\ accounts = {}
    /\ transactions = <<>>
    /\ committed = [accounts |-> {}, transactions |-> <<>>]
    /\ inTransaction = FALSE
    /\ last = [op |-> "none", account_number |-> {}, amount |-> 0,
               outcome |-> "none", ret |-> {}, rows |-> <<>>]
    /\ nCalls = 0
    /\ nFaults = 0
    /\ timesIssued = [n \in AccountNumberInputs |-> 0]
    /\ timesDeleted = [n \in AccountNumberInputs |-> 0]
    /\ createdAt = [n \in AccountNumberInputs |-> 0]
    /\ ConcIdle

\* The accounts table after create_account's INSERT has raised: SQLite undoes the
\* failed statement, so the row is not there (variant: the row stays).
AfterFailedInsertKeepsRow(accts, row) == accts \cup {row}
AfterFailedInsert(accts, row) == accts

\* create_account(conn, name, age, gender)
create_account ==
    \E applicant \in Applicants :
    \E account_number \in generate_account_number(accounts) :
        LET name == applicant.name
            age == applicant.age
            gender == applicant.gender IN
        \/ /\ ~PrimaryKeyViolation(accounts, account_number)
           /\ accounts' = accounts \cup {NewAccountRow(account_number, name, age, gender)}
           /\ transactions' = transactions
           /\ Commit
           /\ Call("create_account", {}, 0, "created", {account_number})
           /\ timesIssued' = Put(timesIssued, account_number, Get(timesIssued, account_number) + 1)
           /\ createdAt' = Put(createdAt, account_number, Len(transactions))
           /\ UNCHANGED <<nFaults, timesDeleted>>
        \/ /\ PrimaryKeyViolation(accounts, account_number)
           /\ inTransaction' = TRUE
           /\ Call("create_account", {}, 0, "error", {})
           /\ UNCHANGED <<accounts, transactions, committed, nFaults, timesIssued, timesDeleted, createdAt>>
        \/ /\ StatementRaises(AfterFailedInsert(accounts,
                                   NewAccountRow(account_number, name, age, gender)))
           /\ Call("create_account", {}, 0, "error", {})
           /\ UNCHANGED <<timesIssued, timesDeleted, createdAt>>

\* delete_account(conn, account_number)
delete_account ==
    \E account_number \in AccountNumberInputs :
        \/ /\ accounts' = DeleteRows(accounts, account_number)
           /\ transactions' = TransactionsAfterDelete(transactions, account_number)
           /\ Commit
           /\ Call("delete_account", {account_number}, 0, "deleted", {})
           /\ timesDeleted' = IF \E row \in accounts : row.account_number = account_number
                              THEN Put(timesDeleted, account_number,
                                       Get(timesDeleted, account_number) + 1)
                              ELSE timesDeleted
           /\ UNCHANGED <<nFaults, timesIssued, createdAt>>
        \/ /\ StatementRaises(accounts)
           /\ Call("delete_account", {account_number}, 0, "error", {})
           /\ UNCHANGED <<timesIssued, timesDeleted, createdAt>>

\* deposit(conn, account_number, amount)
deposit ==
    \E account_number \in AccountNumberInputs, amount \in Amounts :
        LET account == SelectAccount(accounts, account_number) IN
        IF account # {}
        THEN \/ /\ accounts' = DepositStatement(accounts, account, account_number, amount)
                /\ transactions' = InsertTransaction(transactions, account_number, "Deposit", amount)
                /\ Commit
                /\ Call("deposit", {account_number}, amount, "ok", {})
                /\ UNCHANGED <<nFaults, timesIssued, timesDeleted, createdAt>>
             \/ /\ StatementRaises(accounts)                \* the UPDATE raises
                /\ Call("deposit", {account_number}, amount, "error", {})
                /\ UNCHANGED <<timesIssued, timesDeleted, createdAt>>
             \/ /\ StatementRaises(DepositStatement(accounts, account, account_number, amount))  \* the INSERT raises
                /\ Call("deposit", {account_number}, amount, "error", {})
                /\ UNCHANGED <<timesIssued, timesDeleted, createdAt>>
        ELSE /\ Call("deposit", {account_number}, amount, "not_found", {})
             /\ UNCHANGED <<accounts, transactions, committed, inTransaction, nFaults,
                            timesIssued, timesDeleted, createdAt>>

\* withdraw(conn, account_number, amount)
withdraw ==
    \E account_number \in AccountNumberInputs, amount \in Amounts :
        LET found == SelectAccount(accounts, account_number) IN
        IF found # {}
        THEN LET balance == (CHOOSE row \in found : TRUE).balance IN
             IF SufficientBalance(balance, amount)
             THEN \/ /\ accounts' = WithdrawStatement(accounts, account_number, amount)
                     /\ transactions' = InsertTransaction(transactions, account_number, "Withdraw", amount)
                     /\ Commit
                     /\ Call("withdraw", {account_number}, amount, "ok", {})
                     /\ UNCHANGED <<nFaults, timesIssued, timesDeleted, createdAt>>
                  \/ /\ StatementRaises(accounts)                \* the UPDATE raises
                     /\ Call("withdraw", {account_number}, amount, "error", {})
                     /\ UNCHANGED <<timesIssued, timesDeleted, createdAt>>
                  \/ /\ StatementRaises(WithdrawStatement(accounts, account_number, amount))  \* the INSERT raises
                     /\ Call("withdraw", {account_number}, amount, "error", {})
                     /\ UNCHANGED <<timesIssued, timesDeleted, createdAt>>
             ELSE /\ Call("withdraw", {account_number}, amount, "insufficient", {})
                  /\ UNCHANGED <<accounts, transactions, committed, inTransaction, nFaults,
                                 timesIssued, timesDeleted, createdAt>>
        ELSE /\ Call("withdraw", {account_number}, amount, "not_found", {})
             /\ UNCHANGED <<accounts, transactions, committed, inTransaction, nFaults,
                            timesIssued, timesDeleted, createdAt>>

\* check_balance(conn, account_number)
check_balance ==
    \E account_number \in AccountNumberInputs :
        LET account_info == SelectAccount(accounts, account_number) IN
        /\ IF account_info # {}
           THEN Call("check_balance", {account_number}, 0, "found", {})
           ELSE Call("check_balance", {account_number}, 0, "not_found", {})
        /\ UNCHANGED <<accounts, transactions, committed, inTransaction, nFaults,
                       timesIssued, timesDeleted, createdAt>>

\* transaction_history(conn, account_number)
transaction_history ==
    \E account_number \in AccountNumberInputs :
        LET rows == SelectTransactions(transactions, account_number) IN
        /\ IF rows # <<>>
           THEN CallShowing("transaction_history", {account_number}, 0, "listed", {}, rows)
           ELSE CallShowing("transaction_history", {account_number}, 0, "no_history", {}, rows)
        /\ UNCHANGED <<accounts, transactions, committed, inTransaction, nFaults,
                       timesIssued, timesDeleted, createdAt>>

\* ------------------------------------------------- concurrent sessions
\* Each session runs the functions on a connection of its own, one statement
\* at a time.  A SELECT outside a transaction reads the committed tables.  The first
\* write statement of a call opens the connection's transaction and takes bank.db's
\* write lock, waiting while another connection holds it; conn.commit() publishes
\* the connection's view and frees the lock.
ConcAmounts == {1}

\* The account every concurrent run starts with: created by create_account, balance 0.
FreshAccount == NewAccountRow(MinAccountNumber, "Alice", MinAge, "Female")

ConcInit ==
    /\ committed = [accounts |-> {FreshAccount}, transactions |-> <<>>]
    /\ accounts = committed.accounts
    /\ transactions = committed.transactions
    /\ inTransaction = FALSE
    /\ last = [op |-> "create_account", account_number |-> {}, amount |-> 0,
               outcome |-> "created", ret |-> {MinAccountNumber}, rows |-> <<>>]
    /\ nCalls = 0
    /\ nFaults = 0
    /\ timesIssued = [n \in AccountNumberInputs |-> IF n = MinAccountNumber THEN 1 ELSE 0]
    /\ timesDeleted = [n \in AccountNumberInputs |-> 0]
    /\ createdAt = [n \in AccountNumberInputs |-> 0]
    /\ ConcIdle

\* A session enters a function with its arguments.
Begin(s, op, account_number, amount) ==
    /\ pc[s] = "idle"
    /\ nCalls < MaxSessionCalls
    /\ nCalls' = nCalls + 1
    /\ args' = [args EXCEPT ![s] = [op |-> op, account_number |-> account_number,
                                    amount |-> amount]]
    /\ overlap' = (overlap \/ \E t \in Sessions \ {s} : pc[t] # "idle")
    /\ nUnitDeposits' = IF op = "deposit" /\ amount = 1
                           /\ account_number = FreshAccount.account_number THEN nUnitDeposits + 1
                        ELSE nUnitDeposits

Finish(s, outcome) ==
    /\ pc' = [pc EXCEPT ![s] = "idle"]
    /\ result' = [result EXCEPT ![s] = outcome]

\* The session's first write statement: wait for the write lock, then write on the
\* committed tables.
OpenTransaction(s, accts, txs) ==
    /\ writeLock = 0
    /\ writeLock' = s
    /\ connView' = [connView EXCEPT ![s] = [accounts |-> accts, transactions |-> txs]]

\* conn.commit() of a session.
SessionCommit(s) ==
    /\ writeLock = s
    /\ committed' = connView[s]
    /\ writeLock' = 0

\* deposit, lines 100-102 and 107-108: SELECT * FROM accounts, then the branch on it.
deposit_select(s) ==
    \E account_number \in AccountNumberInputs, amount \in ConcAmounts :
        LET account == SelectAccount(committed.accounts, account_number) IN
        /\ Begin(s, "deposit", account_number, amount)
        /\ fetched' = [fetched EXCEPT ![s] = account]
        /\ IF account # {}
           THEN pc' = [pc EXCEPT ![s] = "deposit_update"] /\ UNCHANGED result
           ELSE Finish(s, "not_found")
        /\ UNCHANGED <<committed, connView, writeLock>>

\* deposit, line 103: the UPDATE.
deposit_update(s) ==
    /\ pc[s] = "deposit_update"
    /\ OpenTransaction(s, DepositStatement(committed.accounts, fetched[s],
                                           args[s].account_number, args[s].amount),
                       committed.transactions)
    /\ pc' = [pc EXCEPT ![s] = "deposit_insert"]
    /\ UNCHANGED <<committed, nCalls, args, fetched, result, overlap, nUnitDeposits>>

\* deposit, line 104: the INSERT.
deposit_insert(s) ==
    /\ pc[s] = "deposit_insert"
    /\ connView' = [connView EXCEPT ![s].transactions =
           InsertTransaction(@, args[s].account_number, "Deposit", args[s].amount)]
    /\ pc' = [pc EXCEPT ![s] = "deposit_commit"]
    /\ UNCHANGED <<committed, nCalls, args, fetched, result, writeLock, overlap, nUnitDeposits>>

\* deposit, lines 105-106: the commit.
deposit_commit(s) ==
    /\ pc[s] = "deposit_commit"
    /\ SessionCommit(s)
    /\ Finish(s, "ok")
    /\ UNCHANGED <<nCalls, args, fetched, connView, overlap, nUnitDeposits>>

\* withdraw, lines 125-129 and 134-137: SELECT balance, then the two branches on it.
withdraw_select(s) ==
    \E account_number \in AccountNumberInputs, amount \in ConcAmounts :
        LET found == SelectAccount(committed.accounts, account_number) IN
        /\ Begin(s, "withdraw", account_number, amount)
        /\ fetched' = [fetched EXCEPT ![s] = found]
        /\ IF found = {}
           THEN Finish(s, "not_found")
           ELSE IF SufficientBalance((CHOOSE row \in found : TRUE).balance, amount)
                THEN pc' = [pc EXCEPT ![s] = "withdraw_update"] /\ UNCHANGED result
                ELSE Finish(s, "insufficient")
        /\ UNCHANGED <<committed, connView, writeLock>>

\* withdraw, line 130: the UPDATE.
withdraw_update(s) ==
    /\ pc[s] = "withdraw_update"
    /\ OpenTransaction(s, WithdrawStatement(committed.accounts, args[s].account_number,
                                            args[s].amount),
                       committed.transactions)
    /\ pc' = [pc EXCEPT ![s] = "withdraw_insert"]
    /\ UNCHANGED <<committed, nCalls, args, fetched, result, overlap, nUnitDeposits>>

\* withdraw, line 131: the INSERT.
withdraw_insert(s) ==
    /\ pc[s] = "withdraw_insert"
    /\ connView' = [connView EXCEPT ![s].transactions =
           InsertTransaction(@, args[s].account_number, "Withdraw", args[s].amount)]
    /\ pc' = [pc EXCEPT ![s] = "withdraw_commit"]
    /\ UNCHANGED <<committed, nCalls, args, fetched, result, writeLock, overlap, nUnitDeposits>>

\* withdraw, lines 132-133: the commit.
withdraw_commit(s) ==
    /\ pc[s] = "withdraw_commit"
    /\ SessionCommit(s)
    /\ Finish(s, "ok")
    /\ UNCHANGED <<nCalls, args, fetched, connView, overlap, nUnitDeposits>>

\* create_account, lines 59-60: the call enters generate_account_number.
create_call(s) ==
    /\ Begin(s, "create_account", 0, 0)
    /\ pc' = [pc EXCEPT ![s] = "create_generate"]
    /\ UNCHANGED <<committed, fetched, connView, result, writeLock>>

\* generate_account_number, lines 37-43: one turn of the loop with candidate n drawn.
\* A candidate some row holds leaves the session in the loop.
generate_draw(s, n) ==
    /\ pc[s] = "create_generate"
    /\ args' = [args EXCEPT ![s].account_number = n]
    /\ IF n \in generate_account_number(committed.accounts)
       THEN pc' = [pc EXCEPT ![s] = "create_insert"]
       ELSE UNCHANGED pc
    /\ UNCHANGED <<committed, nCalls, fetched, connView, result, writeLock, overlap,
                   nUnitDeposits>>

\* create_account, line 62 and lines 66-68: the INSERT.  A number a committed row
\* holds by now raises IntegrityError: the except clause returns None, and the
\* session's connection ends with its run, which frees the lock.
create_insert(s) ==
    /\ pc[s] = "create_insert"
    /\ writeLock = 0
    /\ IF PrimaryKeyViolation(committed.accounts, args[s].account_number)
       THEN /\ Finish(s, "error")
            /\ UNCHANGED <<connView, writeLock>>
       ELSE /\ OpenTransaction(s, committed.accounts \cup
                                  {NewAccountRow(args[s].account_number, FreshAccount.name,
                                                 FreshAccount.age, FreshAccount.gender)},
                               committed.transactions)
            /\ pc' = [pc EXCEPT ![s] = "create_commit"]
            /\ UNCHANGED result
    /\ UNCHANGED <<committed, nCalls, args, fetched, overlap, nUnitDeposits>>

\* create_account, lines 63-65: the commit; the number is returned.
create_commit(s) ==
    /\ pc[s] = "create_commit"
    /\ SessionCommit(s)
    /\ Finish(s, "created")
    /\ UNCHANGED <<nCalls, args, fetched, connView, overlap, nUnitDeposits>>

\* delete_account, line 81: the DELETE.
delete_statement(s) ==
    \E account_number \in AccountNumberInputs :
        /\ Begin(s, "delete_account", account_number, 0)
        /\ OpenTransaction(s, DeleteRows(committed.accounts, account_number),
                           TransactionsAfterDelete(committed.transactions, account_number))
        /\ pc' = [pc EXCEPT ![s] = "delete_commit"]
        /\ UNCHANGED <<committed, fetched, result>>

\* delete_account, lines 82-83: the commit.
delete_commit(s) ==
    /\ pc[s] = "delete_commit"
    /\ SessionCommit(s)
    /\ Finish(s, "deleted")
    /\ UNCHANGED <<nCalls, args, fetched, connView, overlap, nUnitDeposits>>

ConcNext ==
    \/ \E s \in Sessions : deposit_select(s) /\ UNCHANGED seqVars
    \/ \E s \in Sessions : deposit_update(s) /\ UNCHANGED seqVars
    \/ \E s \in Sessions : deposit_insert(s) /\ UNCHANGED seqVars
    \/ \E s \in Sessions : deposit_commit(s) /\ UNCHANGED seqVars
    \/ \E s \in Sessions : withdraw_select(s) /\ UNCHANGED seqVars
    \/ \E s \in Sessions : withdraw_update(s) /\ UNCHANGED seqVars
    \/ \E s \in Sessions : withdraw_insert(s) /\ UNCHANGED seqVars
    \/ \E s \in Sessions : withdraw_commit(s) /\ UNCHANGED seqVars
    \/ \E s \in Sessions : create_call(s) /\ UNCHANGED seqVars
    \/ \E s \in Sessions, n \in AccountNumberInputs : generate_draw(s, n) /\ UNCHANGED seqVars
    \/ \E s \in Sessions : create_insert(s) /\ UNCHANGED seqVars
    \/ \E s \in Sessions : create_commit(s) /\ UNCHANGED seqVars
    \/ \E s \in Sessions : delete_statement(s) /\ UNCHANGED seqVars
    \/ \E s \in Sessions : delete_commit(s) /\ UNCHANGED seqVars

SpecConc == ConcInit /\ [][ConcNext]_vars

\* The sessions that create and delete accounts, with the generator sampling fairly:
\* a number that stays free to be returned is drawn in the end.
GenNext ==
    \/ \E s \in Sessions : create_call(s) /\ UNCHANGED seqVars
    \/ \E s \in Sessions, n \in AccountNumberInputs : generate_draw(s, n) /\ UNCHANGED seqVars
    \/ \E s \in Sessions : create_insert(s) /\ UNCHANGED seqVars
    \/ \E s \in Sessions : create_commit(s) /\ UNCHANGED seqVars
    \/ \E s \in Sessions : delete_statement(s) /\ UNCHANGED seqVars
    \/ \E s \in Sessions : delete_commit(s) /\ UNCHANGED seqVars

FairSampling ==
    \A s \in Sessions, n \in AccountNumberInputs :
        WF_vars(generate_draw(s, n) /\ UNCHANGED seqVars)

SpecGenerate == ConcInit /\ [][GenNext]_vars /\ FairSampling

Next ==
    \/ create_account /\ UNCHANGED concVars
    \/ delete_account /\ UNCHANGED concVars
    \/ deposit /\ UNCHANGED concVars
    \/ withdraw /\ UNCHANGED concVars
    \/ check_balance /\ UNCHANGED concVars
    \/ transaction_history /\ UNCHANGED concVars

Spec == Init /\ [][Next]_vars

\* -------------------------------------------------------------- properties
\* The amount a transaction row adds to its account's balance.
Signed(tx) == IF tx.transaction_type = "Deposit" THEN tx.amount ELSE -tx.amount

\* Sum of Deposit amounts minus sum of Withdraw amounts over the rows of `txs` after
\* position `from` that carry `account_number`.
RECURSIVE Net(_, _, _)
Net(txs, account_number, from) ==
    IF Len(txs) <= from THEN 0
    ELSE Net(SubSeq(txs, 1, Len(txs) - 1), account_number, from)
         + (IF txs[Len(txs)].account_number = account_number
            THEN Signed(txs[Len(txs)]) ELSE 0)

\* The step is a call of `op` on the shared connection.
CallStep(op) == nCalls' = nCalls + 1 /\ last'.op = op

\* C1: after any sequence of create_account, delete_account, deposit and withdraw
\* calls with any amounts, the balance of every existing account is >= 0.
C1_BalanceNeverNegative ==
    /\ \A row \in committed.accounts : row.balance >= 0
    /\ \A row \in accounts : row.balance >= 0

\* C2: in every reachable state the balance of every existing account equals the sum
\* of its Deposit records minus the sum of its Withdraw records written since the
\* account was created.
C2_BalanceIsNetOfRecords ==
    \A row \in accounts :
        row.balance = Net(transactions, row.account_number,
                          Get(createdAt, row.account_number))

\* C3: once a write of deposit or withdraw has failed with a storage error, no
\* committed state holds a balance change without its transaction record, or a
\* record without its balance change.
C3_CommittedWritesArePaired ==
    nFaults >= 1 =>
        \A row \in committed.accounts :
            row.balance = Net(committed.transactions, row.account_number,
                              Get(createdAt, row.account_number))

\* C4: deposit and withdraw with an amount <= 0 fail with a validation error, and
\* every stored transaction record has amount > 0.
C4_NonPositiveAmountRejected ==
    /\ (last.op \in {"deposit", "withdraw"} /\ last.amount <= 0)
           => last.outcome = "validation_error"
    /\ \A i \in 1 .. Len(committed.transactions) : committed.transactions[i].amount > 0

\* C5: withdraw on an existing account with an amount greater than its current
\* balance reports insufficient funds, changes no balance and adds no record.
C5_OverdrawRejected ==
    [][\A n \in AccountNumberInputs :
          (/\ CallStep("withdraw")
           /\ last'.account_number = {n}
           /\ \E row \in accounts : row.account_number = n /\ last'.amount > row.balance)
          => /\ last'.outcome = "insufficient"
             /\ accounts' = accounts
             /\ transactions' = transactions
             /\ committed' = committed]_vars

C5_Witness ==
    /\ last.op = "withdraw"
    /\ last.outcome = "insufficient"
    /\ \E row \in accounts :
          /\ last.account_number = {row.account_number}
          /\ last.amount > row.balance
          /\ row.balance > 0

\* C6: concurrent withdrawals on one account, each on its own connection, never
\* decrement a balance their check did not cover: no withdrawal writes a balance
\* below 0 and none is committed.
C6_WithdrawCheckAndDecrementAtomic ==
    /\ \A row \in committed.accounts : row.balance >= 0
    /\ \A s \in Sessions :
          pc[s] \in {"withdraw_insert", "withdraw_commit"}
              => \A row \in connView[s].accounts : row.balance >= 0

\* Deposit rows of `account_number` in `txs`.
DepositRows(txs, account_number) ==
    {i \in 1 .. Len(txs) : /\ txs[i].account_number = account_number
                           /\ txs[i].transaction_type = "Deposit"}

NoSharedNumber(accts) ==
    \A r1, r2 \in accts : r1.account_number = r2.account_number => r1 = r2

\* C8: every successful create_account returns a number in [10000000, 99999999] that
\* no existing account holds and inserts that account with balance 0; no two existing
\* accounts ever share an account number.
C8_CreateReturnsUniqueNumber ==
    /\ [](NoSharedNumber(accounts) /\ NoSharedNumber(committed.accounts))
    /\ [][(CallStep("create_account") /\ last'.outcome = "created")
          => \E n \in last'.ret :
                /\ last'.ret = {n}
                /\ MinAccountNumber <= n /\ n <= MaxAccountNumber
                /\ \A row \in accounts \cup committed.accounts : row.account_number # n
                /\ \E row \in accounts' : row.account_number = n /\ row.balance = 0
                /\ \E row \in committed'.accounts : row.account_number = n /\ row.balance = 0
                /\ Cardinality(accounts') = Cardinality(accounts) + 1]_vars

C8_Witness ==
    /\ last.op = "create_account"
    /\ last.outcome = "created"
    /\ Cardinality(committed.accounts) >= 2
    /\ \E row \in committed.accounts : last.ret = {row.account_number} /\ row.balance = 0

\* C9 as stated: create_account never returns an identifier that an earlier account,
\* deleted since, held.
C9_NeverReissued ==
    \A n \in DOMAIN timesIssued : timesIssued[n] <= 1

\* C9 as amended: create_account returns an identifier that no existing account holds;
\* an identifier is returned again only after the account that held it was deleted.
C9_ReissuedOnlyAfterDelete ==
    \A n \in DOMAIN timesIssued :
        timesIssued[n] = Get(timesDeleted, n)
                         + Cardinality({row \in accounts : row.account_number = n})

C9_Witness ==
    /\ last.op = "create_account"
    /\ last.outcome = "created"
    /\ \E n \in DOMAIN timesIssued :
          /\ last.ret = {n}
          /\ timesIssued[n] >= 2
          /\ \E row \in committed.accounts : row.account_number = n

\* C11: delete_account with an account number that no existing account holds reports
\* a not-found failure and leaves accounts and transactions unchanged.
C11_DeleteUnknownReportsNotFound ==
    [][\A n \in AccountNumberInputs :
          (/\ CallStep("delete_account")
           /\ last'.account_number = {n}
           /\ \A row \in accounts : row.account_number # n)
          => /\ last'.outcome = "not_found"
             /\ accounts' = accounts
             /\ transactions' = transactions
             /\ committed' = committed]_vars

\* The account numbers held by the rows of `accts`.
AccountNumbersOf(accts) == {row.account_number : row \in accts}

\* C12: an account exists exactly from the create_account that returned its number to
\* the next delete_account of that number; while it does not exist, check_balance,
\* deposit and withdraw on the number report not-found; and only create_account and
\* delete_account change the set of existing accounts.
C12_AccountLifecycle ==
    /\ [](/\ AccountNumbersOf(accounts) =
                {n \in DOMAIN timesIssued : timesIssued[n] > Get(timesDeleted, n)}
          /\ AccountNumbersOf(committed.accounts) = AccountNumbersOf(accounts))
    /\ [][/\ AccountNumbersOf(accounts') # AccountNumbersOf(accounts)
              => nCalls' = nCalls + 1 /\ last'.op \in {"create_account", "delete_account"}
          /\ \A n \in AccountNumberInputs :
                /\ (/\ nCalls' = nCalls + 1
                    /\ last'.op \in {"check_balance", "deposit", "withdraw"}
                    /\ last'.account_number = {n})
                   => (last'.outcome = "not_found" <=> n \notin AccountNumbersOf(accounts))
                /\ (CallStep("delete_account") /\ last'.account_number = {n}
                        /\ last'.outcome = "deleted")
                   => n \notin AccountNumbersOf(accounts')
                /\ (CallStep("create_account") /\ last'.ret = {n})
                   => n \in AccountNumbersOf(accounts') \ AccountNumbersOf(accounts)]_vars

C12_Witness ==
    /\ last.op \in {"check_balance", "deposit", "withdraw"}
    /\ last.outcome = "not_found"
    /\ \E n \in DOMAIN timesDeleted :
          /\ last.account_number = {n}
          /\ timesDeleted[n] >= 1
          /\ timesIssued[n] = timesDeleted[n]

\* The rows of `txs` after position `from`.
RowsAfter(txs, from) == SubSeq(txs, from + 1, Len(txs))

\* C13: for every existing account, transaction_history returns exactly the deposits
\* and withdrawals made on that account since its creation, in the order made.
C13_HistoryIsOwnOperations ==
    /\ \A row \in accounts :
          SelectTransactions(transactions, row.account_number) =
              SelectTransactions(RowsAfter(transactions, Get(createdAt, row.account_number)),
                                 row.account_number)
    /\ (last.op = "transaction_history"
           /\ last.account_number \subseteq AccountNumbersOf(accounts))
        => \A n \in last.account_number :
              last.rows = SelectTransactions(RowsAfter(transactions, Get(createdAt, n)), n)

\* C10: create_account with an empty name or an age below 16 inserts no account:
\* every stored account has age >= 16 and a non-empty name.
C10_StoredAccountsValid ==
    \A row \in committed.accounts : row.age >= MinAge /\ row.name # ""

\* C14: when concurrent create_account calls draw the same candidate and both pass the
\* existence check, the call whose INSERT loses draws again and returns another unused
\* number: no create_account call ends without an account.
C14_LoserRetries ==
    \A s \in Sessions :
        (pc[s] = "idle" /\ args[s].op = "create_account") => result[s] = "created"

\* C15: deposit and withdraw with a number that no existing account holds report
\* not-found and change nothing, so a call goes on to its writes only for an existing
\* account, and the account exists when the call's transaction record is written.
C15_RecordsOnlyForExistingAccounts ==
    /\ [](\A s \in Sessions :
             pc[s] \in {"deposit_commit", "withdraw_commit"}
                 => args[s].account_number \in AccountNumbersOf(connView[s].accounts))
    /\ [][/\ \A s \in Sessions :
                (/\ nCalls' = nCalls + 1
                 /\ pc[s] = "idle" /\ pc'[s] # "idle"
                 /\ args'[s].op \in {"deposit", "withdraw"})
                => args'[s].account_number \in AccountNumbersOf(committed.accounts)
          /\ (nCalls' = nCalls + 1 /\ pc' = pc) => committed' = committed]_vars

\* `a` is an initial part of `b`.
IsPrefix(a, b) == Len(a) <= Len(b) /\ SubSeq(b, 1, Len(a)) = a

\* C16: transaction records are append-only: no call modifies or removes a record,
\* delete_account leaves the transactions table as it was, and transaction_history
\* returns every record of the number asked for, those of a deleted account too.
C16_RecordsAppendOnly ==
    [][/\ IsPrefix(transactions, transactions')
       /\ IsPrefix(committed.transactions, committed'.transactions)
       /\ CallStep("delete_account")
            => /\ transactions' = transactions
               /\ committed'.transactions = committed.transactions
       /\ CallStep("transaction_history")
            => \A n \in last'.account_number :
                  last'.rows = SelectTransactions(transactions, n)]_vars

\* A transaction_history call has listed the records of an account deleted before.
C16_Witness ==
    /\ last.op = "transaction_history"
    /\ last.outcome = "listed"
    /\ last.rows # <<>>
    /\ \E n \in last.account_number :
          /\ n \notin AccountNumbersOf(accounts)
          /\ Get(timesDeleted, n) >= 1

\* The numbers the generator may return at this moment.
FreeNumbers == generate_account_number(committed.accounts)

\* C17: whenever an unused number exists in the range, generate_account_number
\* eventually returns, given that every number keeps being drawn; and it never
\* returns a number that its existence check found in the accounts table.
C17_GeneratorReturns ==
    /\ \A s \in Sessions :
          (pc[s] = "create_generate" /\ FreeNumbers # {})
              ~> (pc[s] = "create_insert" \/ FreeNumbers = {})
    /\ [][\A s \in Sessions :
             (pc[s] = "create_generate" /\ pc'[s] = "create_insert")
                 => /\ args'[s].account_number \notin AccountNumbersOf(committed.accounts)
                    /\ args'[s].account_number >= MinAccountNumber
                    /\ args'[s].account_number <= MaxAccountNumber]_vars

\* The generator has returned in one session after drawing a number in use, which
\* it passed over.
C17_Witness ==
    \E s \in Sessions :
        /\ pc[s] = "create_insert"
        /\ args[s].account_number \in FreeNumbers
        /\ \E t \in Sessions \ {s} :
              /\ pc[t] = "create_generate"
              /\ args[t].account_number \in AccountNumbersOf(committed.accounts)

\* The ids of `txs` grow strictly along the order of insertion.
StrictlyIncreasingIds(txs) ==
    \A i, j \in 1 .. Len(txs) : i < j => txs[i].id < txs[j].id

\* C18: transaction ids are strictly increasing in insertion order, in the tables the
\* connection sees and in the committed tables.
C18_IdsStrictlyIncreasing ==
    /\ StrictlyIncreasingIds(transactions)
    /\ StrictlyIncreasingIds(committed.transactions)

\* Two records of different calls have been committed.
C18_Witness ==
    /\ Len(committed.transactions) >= 2
    /\ last.op \in {"deposit", "withdraw"}
    /\ last.outcome = "ok"

\* Between the tables `before` and `after`, no account was added or removed, no name,
\* age or gender changed, and no balance changed except that of `account_number`.
OnlyBalanceOf(account_number, before, after) ==
    /\ AccountNumbersOf(after) = AccountNumbersOf(before)
    /\ \A row \in before, row2 \in after :
          row.account_number = row2.account_number
              => /\ row2.name = row.name
                 /\ row2.age = row.age
                 /\ row2.gender = row.gender
                 /\ row.account_number # account_number => row2.balance = row.balance

\* C19: a deposit or withdraw on account A leaves the balance of every other account
\* and every account's name, age and gender unchanged, and adds or removes no account.
C19_OtherAccountsUntouched ==
    [][\A n \in AccountNumberInputs :
          ((CallStep("deposit") \/ CallStep("withdraw")) /\ last'.account_number = {n})
              => /\ OnlyBalanceOf(n, accounts, accounts')
                 /\ OnlyBalanceOf(n, committed.accounts, committed'.accounts)]_vars

====
